---- MODULE Spec2Model ----
(***************************************************************************)
(* Model of src/main.py: a transport Service (legs, ODs), the itinerary    *)
(* and OD-leg resolution, the passenger manifest, OD.history and           *)
(* OD.forecast.                                                            *)
(*                                                                         *)
(* Stations are the integers 1..N (Python compares Station objects by      *)
(* identity).  A Leg is a record [origin, destination]; an OD is a record  *)
(* [origin, destination, passengers]; a Passenger is a record              *)
(* [origin, destination, sale_day_x, price].  Python lists are sequences,  *)
(* Python dicts are functions.                                             *)
(***************************************************************************)
EXTENDS Integers, Sequences, FiniteSets, TLC

VARIABLES
    legs,           \* Service.legs
    ods,            \* Service.ods (each with its passengers list)
    stops,          \* argument of the last load_itinerary call (<<>>: none yet)
    manifest,       \* argument of the last load_passenger_manifest call
    pc,             \* position of the running computation ("idle": none)
    caller,         \* what asked for Service.itinerary: "itinerary" or "legs"
    itinerary,      \* local `itinerary` of Service.itinerary
    self_od,        \* index in ods of the OD whose .legs is computed (0: none)
    od_legs,        \* local `legs` of OD.legs
    station_ix,     \* position of `for station in itinerary` in OD.legs
    passengers,     \* OD.passengers of the OD under history()/forecast()
    history,        \* result of OD.history()
    pricing,        \* forecast argument `pricing` (mutated in place)
    demand_matrix,  \* forecast argument `demand_matrix` (mutated in place)
    pricing0,       \* value of `pricing` when forecast was called
    demand0,        \* value of `demand_matrix` when forecast was called
    forecast,       \* local `forecast` (the returned list, or the error result)
    new_forecast,   \* local `new_forecast`
    day_ix,         \* position of `for day in demand_days`
    price_ix        \* position of `for price in prices`

vars == <<legs, ods, stops, manifest, pc, caller, itinerary, self_od, od_legs,
          station_ix, passengers, history, pricing, demand_matrix, pricing0,
          demand0, forecast, new_forecast, day_ix, price_ix>>

serviceVars == <<legs, ods, stops, manifest>>
routeVars == <<caller, itinerary, self_od, od_legs, station_ix>>
odVars == <<passengers, history, pricing, demand_matrix, pricing0, demand0,
            forecast, new_forecast, day_ix, price_ix>>

----------------------------------------------------------------------------
(* Bounds *)

NStations == 4
NStops == 3
MaxLegs == 3
MaxItin == 6
MaxBooked == 3
MaxPassengers == 3
MaxQty == 2
MaxSeed == 1

Stations == 1..NStations
SmallStations == 1..NStops

----------------------------------------------------------------------------
(* Helpers on sequences *)

Last(s) == s[Len(s)]

Range(s) == {s[i] : i \in 1..Len(s)}

SeqsUpTo(S, n) == UNION {[1..m -> S] : m \in 0..n}

DistinctSeqs(S, lo, hi) ==
    {s \in UNION {[1..m -> S] : m \in lo..hi} :
        \A a, b \in 1..Len(s) : a # b => s[a] # s[b]}

----------------------------------------------------------------------------
(* Constructors *)

Leg(origin, destination) == [origin |-> origin, destination |-> destination]

OD(origin, destination) ==
    [origin |-> origin, destination |-> destination, passengers |-> <<>>]

Passenger(origin, destination, sale_day_x, price) ==
    [origin |-> origin, destination |-> destination,
     sale_day_x |-> sale_day_x, price |-> price]

----------------------------------------------------------------------------
(* Service.load_itinerary *)

\* faulty variant: the loop stops one leg early
BuildLegsShort(it) ==
    [i \in 1..(IF Len(it) > 1 THEN Len(it) - 2 ELSE 0) |-> Leg(it[i], it[i + 1])]

\* for i in range(len(itinerary)-1): legs.append(Leg(self, itinerary[i], itinerary[i+1]))
BuildLegs(it) ==
    [i \in 1..(IF Len(it) > 0 THEN Len(it) - 1 ELSE 0) |-> Leg(it[i], it[i + 1])]

\* for i ...: for j in range(i+1, len(itinerary)): ods.append(OD(self, itinerary[i], itinerary[j]))
RECURSIVE BuildODs(_, _)
BuildODs(it, i) ==
    IF i > Len(it) - 1 THEN <<>>
    ELSE [j \in 1..(Len(it) - i) |-> OD(it[i], it[i + j])] \o BuildODs(it, i + 1)

\* load_itinerary(it) for one of the given stop sequences
LoadItinerary(Itineraries) ==
    /\ pc = "idle"
    /\ \E it \in Itineraries :
          /\ legs' = BuildLegs(it)
          /\ ods' = BuildODs(it, 1)
          /\ stops' = it
    /\ UNCHANGED <<manifest, pc>>
    /\ UNCHANGED routeVars
    /\ UNCHANGED odVars

\* service.legs = [...] on a new Service: the legs assigned directly
SetLegs(LegLists) ==
    /\ pc = "idle"
    /\ legs = <<>>
    /\ \E ls \in LegLists : legs' = ls
    /\ stops' = <<>>
    /\ UNCHANGED <<ods, manifest, pc>>
    /\ UNCHANGED routeVars
    /\ UNCHANGED odVars

----------------------------------------------------------------------------
(* Service.load_passenger_manifest *)

\* faulty variant: a booking is matched on its origin alone
MatchesOrigin(passenger, od) == passenger.origin = od.origin

\* if passenger.origin == od.origin and passenger.destination == od.destination
Matches(passenger, od) ==
    passenger.origin = od.origin /\ passenger.destination = od.destination

\* for od in self.ods: if ...: od.passengers.append(passenger)
Allocate(os, passenger) ==
    [k \in 1..Len(os) |->
        IF Matches(passenger, os[k])
        THEN [os[k] EXCEPT !.passengers = Append(@, passenger)]
        ELSE os[k]]

\* for passenger in passengers: ...
RECURSIVE AllocateAll(_, _, _)
AllocateAll(os, ps, i) ==
    IF i > Len(ps) THEN os
    ELSE AllocateAll(Allocate(os, ps[i]), ps, i + 1)

RECURSIVE Booked(_, _)
Booked(os, k) == IF k > Len(os) THEN 0 ELSE Len(os[k].passengers) + Booked(os, k + 1)

\* load_passenger_manifest(ps) for one of the given manifests
LoadPassengerManifest(Manifests) ==
    /\ pc = "idle"
    /\ \E ps \in Manifests :
          /\ ods' = AllocateAll(ods, ps, 1)
          /\ manifest' = ps
    /\ pc' = "manifest_done"
    /\ UNCHANGED <<legs, stops>>
    /\ UNCHANGED routeVars
    /\ UNCHANGED odVars

----------------------------------------------------------------------------
(* Service.itinerary *)

Origins(ls) == [i \in 1..Len(ls) |-> ls[i].origin]

Destinations(ls) == [i \in 1..Len(ls) |-> ls[i].destination]

\* faulty variant: every origin is taken as a start, whether or not a leg arrives there
ItineraryStartAll(ls) == Origins(ls)

\* for station in origins: if not station in destinations: itinerary.append(station)
ItineraryStart(ls) ==
    SelectSeq(Origins(ls), LAMBDA s : s \notin Range(Destinations(ls)))

\* for leg in self.legs: if leg.origin == itinerary[-1]: itinerary.append(leg.destination)
RECURSIVE ItineraryPass(_, _, _)
ItineraryPass(ls, i, itin) ==
    IF i > Len(ls) THEN itin
    ELSE ItineraryPass(ls, i + 1,
             IF ls[i].origin = Last(itin) THEN Append(itin, ls[i].destination)
             ELSE itin)

\* access to the property Service.itinerary
CallItinerary ==
    /\ pc = "idle"
    /\ pc' = "itin_begin"
    /\ caller' = "itinerary"
    /\ UNCHANGED <<itinerary, self_od, od_legs, station_ix>>
    /\ UNCHANGED serviceVars
    /\ UNCHANGED odVars

ItineraryBegin ==
    /\ pc = "itin_begin"
    /\ itinerary' = ItineraryStart(legs)
    /\ pc' = "itin_while"
    /\ UNCHANGED <<caller, self_od, od_legs, station_ix>>
    /\ UNCHANGED serviceVars
    /\ UNCHANGED odVars

\* one evaluation of `while itinerary[-1] in origins` and, when true, its body
ItineraryWhile ==
    /\ pc = "itin_while"
    /\ IF itinerary = <<>>
       THEN /\ pc' = "itin_error"          \* itinerary[-1]: IndexError
            /\ UNCHANGED itinerary
       ELSE IF Last(itinerary) \in Range(Origins(legs))
       THEN /\ Len(itinerary) < MaxItin
            /\ itinerary' = ItineraryPass(legs, 1, itinerary)
            /\ UNCHANGED pc
       ELSE /\ pc' = IF caller = "legs" THEN "legs_first" ELSE "itin_done"
            /\ UNCHANGED itinerary
    /\ UNCHANGED <<caller, self_od, od_legs, station_ix>>
    /\ UNCHANGED serviceVars
    /\ UNCHANGED odVars

----------------------------------------------------------------------------
(* OD.legs *)

LegsFrom(ls, station) == SelectSeq(ls, LAMBDA leg : station = leg.origin)

\* for station in itinerary: if station == self.origin: for leg ...: legs.append(leg)
RECURSIVE FirstLegs(_, _, _, _)
FirstLegs(itin, ls, origin, i) ==
    IF i > Len(itin) THEN <<>>
    ELSE (IF itin[i] = origin THEN LegsFrom(ls, itin[i]) ELSE <<>>)
         \o FirstLegs(itin, ls, origin, i + 1)

\* access to the property OD.legs of ods[o]
CallLegs ==
    /\ pc = "idle"
    /\ \E o \in 1..Len(ods) : self_od' = o
    /\ pc' = "itin_begin"
    /\ caller' = "legs"
    /\ UNCHANGED <<itinerary, od_legs, station_ix>>
    /\ UNCHANGED serviceVars
    /\ UNCHANGED odVars

LegsFirst ==
    /\ pc = "legs_first"
    /\ od_legs' = FirstLegs(itinerary, legs, ods[self_od].origin, 1)
    /\ pc' = "legs_while"
    /\ UNCHANGED <<caller, itinerary, self_od, station_ix>>
    /\ UNCHANGED serviceVars
    /\ UNCHANGED odVars

\* one evaluation of `while legs[-1].destination != self.destination`
LegsWhile ==
    /\ pc = "legs_while"
    /\ IF od_legs = <<>>
       THEN /\ pc' = "legs_error"          \* legs[-1]: IndexError
            /\ UNCHANGED station_ix
       ELSE IF Last(od_legs).destination # ods[self_od].destination
       THEN /\ pc' = "legs_for"
            /\ station_ix' = 1
       ELSE /\ pc' = "legs_done"
            /\ UNCHANGED station_ix
    /\ UNCHANGED <<caller, itinerary, self_od, od_legs>>
    /\ UNCHANGED serviceVars
    /\ UNCHANGED odVars

\* one iteration of `for station in itinerary` inside the while loop
LegsFor ==
    /\ pc = "legs_for"
    /\ IF station_ix > Len(itinerary)
       THEN /\ pc' = "legs_while"
            /\ station_ix' = 0
            /\ UNCHANGED od_legs
       ELSE /\ od_legs' =
                  IF itinerary[station_ix] = Last(od_legs).destination
                  THEN od_legs \o LegsFrom(legs, itinerary[station_ix])
                  ELSE od_legs
            /\ station_ix' = station_ix + 1
            /\ UNCHANGED pc
    /\ UNCHANGED <<caller, itinerary, self_od>>
    /\ UNCHANGED serviceVars
    /\ UNCHANGED odVars

\* the call returns (or raises) and control is back at the caller
Return ==
    /\ pc \in {"itin_done", "itin_error", "legs_done", "legs_error", "manifest_done"}
    /\ pc' = "idle"
    /\ caller' = "none"
    /\ itinerary' = <<>>
    /\ self_od' = 0
    /\ od_legs' = <<>>
    /\ station_ix' = 0
    /\ manifest' = <<>>
    /\ UNCHANGED <<legs, ods, stops>>
    /\ UNCHANGED odVars

----------------------------------------------------------------------------
(* OD.history *)

\* faulty variant: the bookings are read in insertion order, unsorted
InsertLast(sorted, p) == Append(sorted, p)

\* sorted() is stable: p goes after every booking whose sale_day_x is <= its own
InsertByDay(sorted, p) ==
    LET before == SelectSeq(sorted, LAMBDA q : q.sale_day_x <= p.sale_day_x)
        after == SelectSeq(sorted, LAMBDA q : q.sale_day_x > p.sale_day_x)
    IN  before \o <<p>> \o after

\* passengers = sorted(self.passengers, key=lambda x: x.sale_day_x)
RECURSIVE SortedByDay(_, _)
SortedByDay(ps, n) ==
    IF n = 0 THEN <<>> ELSE InsertByDay(SortedByDay(ps, n - 1), ps[n])

\* update_history(history, passenger); a data point is <<day_x, bookings, revenue>>
UpdateHistory(h, p) ==
    IF Len(h) = 0
    THEN <<<<p.sale_day_x, 1, p.price>>>>
    ELSE IF p.sale_day_x = Last(h)[1]
    THEN [h EXCEPT ![Len(h)] = <<p.sale_day_x, Last(h)[2] + 1, Last(h)[3] + p.price>>]
    ELSE Append(h, <<p.sale_day_x, Last(h)[2] + 1, Last(h)[3] + p.price>>)

\* for passenger in passengers: update_history(history, passenger)
RECURSIVE FoldHistory(_, _)
FoldHistory(sorted, n) ==
    IF n = 0 THEN <<>> ELSE UpdateHistory(FoldHistory(sorted, n - 1), sorted[n])

History(ps) == FoldHistory(SortedByDay(ps, Len(ps)), Len(ps))

\* od.history() on an OD holding one of the given booking lists
CallHistory(PassengerLists) ==
    /\ pc = "idle"
    /\ \E ps \in PassengerLists :
          /\ passengers' = ps
          /\ history' = History(ps)
    /\ pc' = "history_done"
    /\ UNCHANGED <<pricing, demand_matrix, pricing0, demand0, forecast,
                   new_forecast, day_ix, price_ix>>
    /\ UNCHANGED serviceVars
    /\ UNCHANGED routeVars

----------------------------------------------------------------------------
(* OD.forecast *)

NoDict == <<>>

SetMin(S) == CHOOSE x \in S : \A y \in S : x <= y

\* sorted([key for key in dict])
RECURSIVE SortedKeys(_)
SortedKeys(S) == IF S = {} THEN <<>> ELSE <<SetMin(S)>> \o SortedKeys(S \ {SetMin(S)})

DemandDays(dm) == SortedKeys(DOMAIN dm)

Prices(pr) == SortedKeys(DOMAIN pr)

\* if len(history) == 0: [demand_days[0] - 1, 0, 0] else: history[-1]
LastData(h, demand_days) ==
    IF Len(h) = 0 THEN <<demand_days[1] - 1, 0, 0>> ELSE Last(h)

\* faulty variant: the history is compared with the last day of the demand matrix
OutOfDateLast(last_data, demand_days) == last_data[1] > Last(demand_days)

\* if last_data[0] > demand_days[0]
OutOfDate(last_data, demand_days) == last_data[1] > demand_days[1]

ErrorResult == "Error, the demand_matrix is not up to date"

\* od.forecast(pricing, demand_matrix), lines 186-205: up to the first day's
\* new_forecast, or to the error return
CallForecast(Inputs) ==
    /\ pc = "idle"
    /\ \E in \in Inputs :
          LET h == History(in.passengers)
              last_data == LastData(h, DemandDays(in.demand_matrix))
          IN  /\ passengers' = in.passengers
              /\ history' = h
              /\ pricing' = in.pricing
              /\ demand_matrix' = in.demand_matrix
              /\ pricing0' = in.pricing
              /\ demand0' = in.demand_matrix
              /\ IF OutOfDate(last_data, DemandDays(in.demand_matrix))
                 THEN /\ forecast' = ErrorResult
                      /\ pc' = "fc_error"
                      /\ UNCHANGED <<new_forecast, day_ix, price_ix>>
                 ELSE /\ forecast' = <<last_data>>
                      /\ new_forecast' =
                            <<DemandDays(in.demand_matrix)[1], last_data[2], last_data[3]>>
                      /\ day_ix' = 1
                      /\ price_ix' = 1
                      /\ pc' = "fc_price"
    /\ UNCHANGED serviceVars
    /\ UNCHANGED routeVars

Day == DemandDays(demand_matrix)[day_ix]

Price == Prices(pricing)[price_ix]

\* faulty variant: a seat is sold as long as the seat count is not negative
CanSellAtZero(day, price) == demand_matrix[day][price] > 0 /\ pricing[price] >= 0

\* while demand_matrix[day][price] > 0 and pricing[price] > 0
CanSell(day, price) == demand_matrix[day][price] > 0 /\ pricing[price] > 0

\* faulty variant: only the tiers above the sold one lose a unit of demand
CascadeAbove(dm, day, price) ==
    [dm EXCEPT ![day] =
        [up \in DOMAIN dm[day] |->
            IF up > price /\ dm[day][up] > 0 THEN dm[day][up] - 1 ELSE dm[day][up]]]

\* for upper_price in prices: if upper_price >= price and demand > 0: demand -= 1
Cascade(dm, day, price) ==
    [dm EXCEPT ![day] =
        [up \in DOMAIN dm[day] |->
            IF up >= price /\ dm[day][up] > 0 THEN dm[day][up] - 1 ELSE dm[day][up]]]

\* one iteration of the while loop: a ticket is sold
ForecastSell ==
    /\ pc = "fc_price"
    /\ price_ix <= Len(Prices(pricing))
    /\ CanSell(Day, Price)
    /\ new_forecast' = <<Day, new_forecast[2] + 1, new_forecast[3] + Price>>
    /\ pricing' = [pricing EXCEPT ![Price] = @ - 1]
    /\ demand_matrix' = Cascade(demand_matrix, Day, Price)
    /\ UNCHANGED <<pc, passengers, history, pricing0, demand0, forecast, day_ix, price_ix>>
    /\ UNCHANGED serviceVars
    /\ UNCHANGED routeVars

\* the while condition is false: next price of `for price in prices`
ForecastNextPrice ==
    /\ pc = "fc_price"
    /\ price_ix <= Len(Prices(pricing))
    /\ ~CanSell(Day, Price)
    /\ price_ix' = price_ix + 1
    /\ UNCHANGED <<pc, passengers, history, pricing, demand_matrix, pricing0, demand0,
                   forecast, new_forecast, day_ix>>
    /\ UNCHANGED serviceVars
    /\ UNCHANGED routeVars

\* forecast.append(new_forecast), then the next day's new_forecast, or after
\* the last day `del forecast[0]` and the return
ForecastAppend ==
    /\ pc = "fc_price"
    /\ price_ix > Len(Prices(pricing))
    /\ IF day_ix < Len(DemandDays(demand_matrix))
       THEN /\ forecast' = Append(forecast, new_forecast)
            /\ new_forecast' =
                  <<DemandDays(demand_matrix)[day_ix + 1], new_forecast[2], new_forecast[3]>>
            /\ day_ix' = day_ix + 1
            /\ price_ix' = 1
            /\ UNCHANGED pc
       ELSE /\ forecast' = Tail(Append(forecast, new_forecast))
            /\ pc' = "fc_done"
            /\ UNCHANGED <<new_forecast, day_ix, price_ix>>
    /\ UNCHANGED <<passengers, history, pricing, demand_matrix, pricing0, demand0>>
    /\ UNCHANGED serviceVars
    /\ UNCHANGED routeVars

\* history() or forecast() has returned and its result is dropped
ReturnOD ==
    /\ pc \in {"history_done", "fc_done", "fc_error"}
    /\ pc' = "idle"
    /\ passengers' = <<>>
    /\ history' = <<>>
    /\ pricing' = NoDict
    /\ demand_matrix' = NoDict
    /\ pricing0' = NoDict
    /\ demand0' = NoDict
    /\ forecast' = <<>>
    /\ new_forecast' = <<>>
    /\ day_ix' = 0
    /\ price_ix' = 0
    /\ UNCHANGED serviceVars
    /\ UNCHANGED routeVars

----------------------------------------------------------------------------
(* Initial state: Service.__init__ and an OD without bookings *)

Init ==
    /\ legs = <<>>
    /\ ods = <<>>
    /\ stops = <<>>
    /\ manifest = <<>>
    /\ pc = "idle"
    /\ caller = "none"
    /\ itinerary = <<>>
    /\ self_od = 0
    /\ od_legs = <<>>
    /\ station_ix = 0
    /\ passengers = <<>>
    /\ history = <<>>
    /\ pricing = NoDict
    /\ demand_matrix = NoDict
    /\ pricing0 = NoDict
    /\ demand0 = NoDict
    /\ forecast = <<>>
    /\ new_forecast = <<>>
    /\ day_ix = 0
    /\ price_ix = 0

----------------------------------------------------------------------------
(* Route resolution on services built by load_itinerary *)

RouteStep == ItineraryBegin \/ ItineraryWhile \/ LegsFirst \/ LegsWhile \/ LegsFor \/ Return

NextRoute ==
    \/ LoadItinerary(DistinctSeqs(Stations, 2, NStations))
    \/ CallItinerary
    \/ CallLegs
    \/ ItineraryBegin
    \/ ItineraryWhile
    \/ LegsFirst
    \/ LegsWhile
    \/ LegsFor
    \/ Return

SpecRoute == Init /\ [][NextRoute]_vars

\* the interpreter always takes the next step of a running computation
FairSpecRoute == SpecRoute /\ WF_vars(RouteStep)

----------------------------------------------------------------------------
(* Itinerary resolution on legs assigned directly (any list of legs) *)

LegPairs == {Leg(x[1], x[2]) : x \in {y \in SmallStations \X SmallStations : y[1] # y[2]}}

NextItinerary ==
    \/ SetLegs(SeqsUpTo(LegPairs, MaxLegs))
    \/ CallItinerary
    \/ ItineraryBegin
    \/ ItineraryWhile
    \/ Return

SpecItinerary == Init /\ [][NextItinerary]_vars

----------------------------------------------------------------------------
(* Manifests loaded into services built by load_itinerary *)

\* the three stations of main.py's service: ply, lpd, msc
ManifestStations == {1, 2, 3}

\* bookings between any two of them, in either direction, sold on two days
ManifestBookings ==
    {Passenger(x[1], x[2], d, 10) :
        x \in {y \in ManifestStations \X ManifestStations : y[1] # y[2]}, d \in {-1, 0}}

\* the service never holds more than MaxBooked bookings
NextManifest ==
    \/ LoadItinerary(DistinctSeqs(ManifestStations, 2, Cardinality(ManifestStations)))
    \/ LoadPassengerManifest(SeqsUpTo(ManifestBookings, MaxBooked - Booked(ods, 1)))
    \/ Return

SpecManifest == Init /\ [][NextManifest]_vars

----------------------------------------------------------------------------
(* History of an OD holding any short list of bookings *)

SaleDays == {-2, -1, 0}

Fares == {10, 20}

HistoryBookings == {Passenger(1, 2, d, f) : d \in SaleDays, f \in Fares}

\* the bookings main.py loads into OD ply-lpd
ReferencePassengers ==
    <<Passenger(1, 2, -30, 20), Passenger(1, 2, -25, 30),
      Passenger(1, 2, -20, 40), Passenger(1, 2, -20, 40)>>

NextHistory ==
    \/ CallHistory(SeqsUpTo(HistoryBookings, MaxPassengers) \cup {ReferencePassengers})
    \/ ReturnOD

SpecHistory == Init /\ [][NextHistory]_vars

----------------------------------------------------------------------------
(* Forecasts on two price tiers and up to two days, and main.py's scenario *)

PriceTiers == {10, 20}

ForecastDays == {-1, 0}

Quantities == 0..MaxQty

DemandMatrices ==
    UNION {[D -> [PriceTiers -> Quantities]] : D \in (SUBSET ForecastDays) \ {{}}}

SeedBookings == {Passenger(1, 2, d, 10) : d \in ForecastDays}

ReferencePricing == (10 :> 0) @@ (20 :> 2) @@ (30 :> 5) @@ (40 :> 5) @@ (50 :> 5)

DemandRow(a, b, c, d, e) == (10 :> a) @@ (20 :> b) @@ (30 :> c) @@ (40 :> d) @@ (50 :> e)

ReferenceDemand ==
    (-7 :> DemandRow(5, 1, 0, 0, 0)) @@ (-6 :> DemandRow(5, 2, 1, 1, 1)) @@
    (-5 :> DemandRow(5, 4, 3, 2, 1)) @@ (-4 :> DemandRow(5, 5, 4, 3, 1)) @@
    (-3 :> DemandRow(5, 5, 5, 3, 2)) @@ (-2 :> DemandRow(5, 5, 5, 4, 3)) @@
    (-1 :> DemandRow(5, 5, 5, 5, 4)) @@ (0 :> DemandRow(5, 5, 5, 5, 5))

ReferenceInput ==
    [passengers |-> ReferencePassengers, pricing |-> ReferencePricing,
     demand_matrix |-> ReferenceDemand]

ForecastInputs ==
    [passengers : SeqsUpTo(SeedBookings, MaxSeed),
     pricing : [PriceTiers -> Quantities],
     demand_matrix : DemandMatrices] \cup {ReferenceInput}

NextForecast ==
    \/ CallForecast(ForecastInputs)
    \/ ForecastSell
    \/ ForecastNextPrice
    \/ ForecastAppend
    \/ ReturnOD

SpecForecast == Init /\ [][NextForecast]_vars

----------------------------------------------------------------------------
(* Properties of route resolution *)

Pos(s, x) == CHOOSE i \in 1..Len(s) : s[i] = x

\* [Leg(stops[i], stops[i+1]), ..., Leg(stops[j-1], stops[j])]
SpanLegs(i, j) == [m \in 1..(j - i) |-> Leg(stops[i + m - 1], stops[i + m])]

ExpectedLegs(o) == SpanLegs(Pos(stops, ods[o].origin), Pos(stops, ods[o].destination))

IsPrefix(s, t) == Len(s) <= Len(t) /\ s = SubSeq(t, 1, Len(s))

\* C1: for a service built by load_itinerary from distinct stops, the leg list
\* of OD (s(i), s(j)) is the span Leg(s(i),s(i+1)) .. Leg(s(j-1),s(j)): the list
\* OD.legs holds never contains a leg outside that span, in that order, and the
\* returned list is the whole span.
C1_LegsAreTheSpan ==
    (stops # <<>> /\ pc \in {"legs_while", "legs_for", "legs_done"}) =>
        /\ IsPrefix(od_legs, ExpectedLegs(self_od))
        /\ pc = "legs_done" => od_legs = ExpectedLegs(self_od)

\* C2: after load_itinerary(stops) on distinct stops, Service.itinerary raises
\* no error and returns exactly stops.
C2_ItineraryRoundTrip ==
    stops # <<>> =>
        /\ pc # "itin_error"
        /\ pc \in {"itin_done", "legs_first"} => itinerary = stops

C2_Witness ==
    /\ pc = "itin_done"
    /\ caller = "itinerary"
    /\ Len(stops) = NStations
    /\ itinerary = stops

\* C10: every computation of OD.legs on a service built by load_itinerary
\* terminates: once started, it reaches its return statement.
C10_LegsTerminates == (pc = "legs_first") ~> (pc = "legs_done")

NoSource(ls) == \A i \in 1..Len(ls) : ls[i].origin \in Range(Destinations(ls))

Branching(ls) == \E a, b \in 1..Len(ls) : a # b /\ ls[a].origin = ls[b].origin

\* C9 (as claimed): itinerary resolution returns no stop sequence when no leg
\* origin is absent from the leg destinations or when two legs share an origin.
C9_RejectsMalformed ==
    (NoSource(legs) \/ Branching(legs)) => pc # "itin_done"

\* C9 (amended): when no leg origin is absent from the leg destinations,
\* itinerary resolution returns no stop sequence: it reaches its loop test with
\* an empty itinerary, where itinerary[-1] raises.
C9_RejectsNoSource ==
    NoSource(legs) =>
        /\ pc # "itin_done"
        /\ pc = "itin_while" => itinerary = <<>>

C9_Witness ==
    /\ pc = "itin_error"
    /\ Len(legs) >= 2
    /\ NoSource(legs)
    /\ ~Branching(legs)

----------------------------------------------------------------------------
(* Properties of the manifest *)

\* the bookings of ps for the pair (origin, destination), in the order of ps
BookingsFor(ps, od) ==
    SelectSeq(ps, LAMBDA p : p.origin = od.origin /\ p.destination = od.destination)

ODsMatching(os, p) ==
    {k \in 1..Len(os) : os[k].origin = p.origin /\ os[k].destination = p.destination}

\* C8: on a service built by load_itinerary, every booking an OD holds has that
\* OD's origin and destination; a load_passenger_manifest call appends to each
\* OD exactly the call's bookings for its pair, in manifest order, after the
\* bookings it held; no booking matches two ODs, and one that matches none
\* changes nothing.
C8_ManifestAllocation ==
    [][/\ \A k \in 1..Len(ods') : \A i \in 1..Len(ods'[k].passengers) :
            /\ ods'[k].passengers[i].origin = ods'[k].origin
            /\ ods'[k].passengers[i].destination = ods'[k].destination
       /\ \A i \in 1..Len(manifest') : Cardinality(ODsMatching(ods', manifest'[i])) <= 1
       /\ pc' = "manifest_done" =>       \* load_passenger_manifest(manifest')
             /\ Len(ods') = Len(ods)
             /\ \A k \in 1..Len(ods) :
                   /\ ods'[k].origin = ods[k].origin
                   /\ ods'[k].destination = ods[k].destination
                   /\ ods'[k].passengers =
                          ods[k].passengers \o BookingsFor(manifest', ods[k])]_vars

C8_Witness ==
    /\ pc = "manifest_done"
    /\ Len(manifest) = 2
    /\ \E k \in 1..Len(ods) :
          /\ Len(ods[k].passengers) = 2
          /\ ods[k].passengers[1] # ods[k].passengers[2]
          /\ ods[k].passengers[2] = manifest[1]
    /\ ODsMatching(ods, manifest[2]) = {}

----------------------------------------------------------------------------
(* Properties of OD.history *)

SaleDaysOf(ps) == {ps[i].sale_day_x : i \in 1..Len(ps)}

SoldBy(ps, d) == {i \in 1..Len(ps) : ps[i].sale_day_x <= d}

RECURSIVE SumPrices(_, _)
SumPrices(ps, I) ==
    IF I = {} THEN 0
    ELSE LET i == CHOOSE j \in I : TRUE IN ps[i].price + SumPrices(ps, I \ {i})

\* C7: history() has one entry per distinct sale day of the OD's bookings, in
\* strictly ascending day order; the entry of day d holds the number of bookings
\* sold on or before d and the sum of their prices; counts and revenues never
\* decrease, the last count is the number of bookings, and no booking gives an
\* empty history.
C7_HistoryIsCumulative ==
    pc = "history_done" =>
        /\ Len(history) = Cardinality(SaleDaysOf(passengers))
        /\ {history[i][1] : i \in 1..Len(history)} = SaleDaysOf(passengers)
        /\ \A i \in 1..Len(history) :
              /\ history[i][2] = Cardinality(SoldBy(passengers, history[i][1]))
              /\ history[i][3] = SumPrices(passengers, SoldBy(passengers, history[i][1]))
        /\ \A i \in 1..(Len(history) - 1) :
              /\ history[i][1] < history[i + 1][1]
              /\ history[i][2] <= history[i + 1][2]
              /\ history[i][3] <= history[i + 1][3]
        /\ history # <<>> => Last(history)[2] = Len(passengers)
        /\ passengers = <<>> => history = <<>>
        /\ passengers = ReferencePassengers =>
              history = <<<<-30, 1, 20>>, <<-25, 2, 50>>, <<-20, 4, 130>>>>

\* bookings inserted out of sale order, two of them on the same day
C7_Witness ==
    /\ pc = "history_done"
    /\ Len(passengers) = 3
    /\ passengers[1].sale_day_x > passengers[2].sale_day_x
    /\ passengers[1].sale_day_x = passengers[3].sale_day_x
    /\ Len(history) = 2

----------------------------------------------------------------------------
(* Properties of OD.forecast *)

Running == pc \in {"fc_price", "fc_done"}

Min(a, b) == IF a <= b THEN a ELSE b

Max(a, b) == IF a >= b THEN a ELSE b

RECURSIVE SumOver(_, _)
SumOver(f, S) ==
    IF S = {} THEN 0
    ELSE LET x == CHOOSE y \in S : TRUE IN f[x] + SumOver(f, S \ {x})

\* C3: a returned forecast of an OD with bookings has every point strictly
\* after the day of the last history point.
C3_ForecastAfterHistory ==
    (pc = "fc_done" /\ history # <<>>) =>
        \A i \in 1..Len(forecast) : forecast[i][1] > Last(history)[1]

\* C4: when the earliest day of the demand matrix is before the day of the last
\* history point, forecast returns the error result and pricing and
\* demand_matrix are as they were at the call.
C4_StaleDemandLeavesInputs ==
    (pc \in {"fc_price", "fc_done", "fc_error"} /\ history # <<>>
        /\ SetMin(DOMAIN demand0) < Last(history)[1]) =>
        /\ pc = "fc_error"
        /\ forecast = ErrorResult
        /\ pricing = pricing0
        /\ demand_matrix = demand0

C4_Witness ==
    /\ pc = "fc_error"
    /\ history # <<>>
    /\ SetMin(DOMAIN demand0) < Last(history)[1]
    /\ \E p \in DOMAIN pricing0 : pricing0[p] > 0 /\ demand0[SetMin(DOMAIN demand0)][p] > 0

\* the bookings counted before the forecast starts
SeedCount == IF history = <<>> THEN 0 ELSE Last(history)[2]

\* the running count of bookings of the forecast
CurrentCount == IF pc = "fc_done" THEN Last(forecast)[2] ELSE new_forecast[2]

\* C5: during and after a forecast, no seat count and no demand is negative,
\* and the sales made at each price are at most the seats it had at the call:
\* the seats taken from the tiers are exactly the sales counted so far.
C5_SalesWithinSeats ==
    Running =>
        /\ \A p \in DOMAIN pricing : pricing[p] >= 0 /\ pricing[p] <= pricing0[p]
        /\ \A d \in DOMAIN demand_matrix : \A p \in DOMAIN demand_matrix[d] :
              demand_matrix[d][p] >= 0 /\ demand_matrix[d][p] <= demand0[d][p]
        /\ CurrentCount - SeedCount =
              SumOver([p \in DOMAIN pricing |-> pricing0[p] - pricing[p]], DOMAIN pricing)

\* a tier sold out by a forecast that had demand left for it
C5_Witness ==
    /\ pc = "fc_done"
    /\ \E p \in DOMAIN pricing :
          /\ pricing[p] = 0
          /\ pricing0[p] = MaxQty
          /\ demand_matrix[Last(DemandDays(demand_matrix))][p] > 0

\* seats sold on one day at the tiers 1..i of ps, by the cascade rule: at each
\* tier min(seats left, max(0, demand - seats sold that day at lower tiers))
RECURSIVE SoldUpTo(_, _, _, _)
SoldAt(seats, demand, ps, i) ==
    Min(seats[ps[i]], Max(0, demand[ps[i]] - SoldUpTo(seats, demand, ps, i - 1)))

SoldUpTo(seats, demand, ps, i) ==
    IF i = 0 THEN 0 ELSE SoldUpTo(seats, demand, ps, i - 1) + SoldAt(seats, demand, ps, i)

RECURSIVE RevenueUpTo(_, _, _, _)
RevenueUpTo(seats, demand, ps, i) ==
    IF i = 0 THEN 0
    ELSE RevenueUpTo(seats, demand, ps, i - 1) + ps[i] * SoldAt(seats, demand, ps, i)

\* seats left at the start of the n-th day of the demand matrix
RECURSIVE SeatsAtDay(_)
SeatsAtDay(n) ==
    IF n = 1 THEN pricing0
    ELSE LET before == SeatsAtDay(n - 1)
             ps == Prices(pricing0)
             demand == demand0[DemandDays(demand0)[n - 1]]
         IN  [p \in DOMAIN pricing0 |->
                before[p] - SoldAt(before, demand, ps, Pos(ps, p))]

\* the point the n-th day must give (n = 0: the point the forecast starts from)
RECURSIVE PointOfDay(_)
PointOfDay(n) ==
    IF n = 0 THEN LastData(history, DemandDays(demand0))
    ELSE LET prev == PointOfDay(n - 1)
             ps == Prices(pricing0)
             demand == demand0[DemandDays(demand0)[n]]
         IN  <<DemandDays(demand0)[n],
               prev[2] + SoldUpTo(SeatsAtDay(n), demand, ps, Len(ps)),
               prev[3] + RevenueUpTo(SeatsAtDay(n), demand, ps, Len(ps))>>

ReferenceForecast ==
    <<<<-7, 5, 150>>, <<-6, 6, 170>>, <<-5, 9, 260>>, <<-4, 12, 360>>,
      <<-3, 15, 480>>, <<-2, 18, 620>>, <<-1, 21, 770>>, <<0, 21, 770>>>>

\* C6: on each day, at each price tier taken in ascending order, the forecast
\* sells min(seats left at the tier, max(0, the day's original demand at the
\* tier - seats sold that day at lower tiers)); each day's point adds the day's
\* sales and their prices to the previous point; main.py's scenario gives its
\* 8 asserted points.
C6_BuyDownCascade ==
    /\ pc = "fc_price" =>
          LET ps == Prices(pricing0)
              seats == SeatsAtDay(day_ix)
              demand == demand0[DemandDays(demand0)[day_ix]]
          IN  /\ \A i \in 1..Len(ps) :
                    i < price_ix =>
                        pricing[ps[i]] = seats[ps[i]] - SoldAt(seats, demand, ps, i)
              /\ \A n \in 1..(day_ix - 1) : forecast[n + 1] = PointOfDay(n)
              /\ price_ix > Len(ps) => new_forecast = PointOfDay(day_ix)
    /\ pc = "fc_done" =>
          /\ Len(forecast) = Cardinality(DOMAIN demand0)
          /\ \A n \in 1..Len(forecast) : forecast[n] = PointOfDay(n)
          /\ pricing = SeatsAtDay(Len(forecast) + 1)
          /\ (pricing0 = ReferencePricing /\ demand0 = ReferenceDemand
                /\ passengers = ReferencePassengers) => forecast = ReferenceForecast

\* a day on which the lower tier sells out and the upper tier sells the rest
\* of its own demand
C6_Witness ==
    /\ pc = "fc_done"
    /\ DOMAIN pricing0 = PriceTiers
    /\ Len(forecast) = 2
    /\ LET ps == Prices(pricing0)
           demand == demand0[DemandDays(demand0)[2]]
       IN  /\ SoldAt(SeatsAtDay(2), demand, ps, 1) = 1
           /\ demand[ps[1]] = 2
           /\ demand[ps[2]] = 2
           /\ SoldAt(SeatsAtDay(2), demand, ps, 2) = 1
           /\ SeatsAtDay(2)[ps[2]] = 2

\* main.py's scenario runs to its asserted result
ReferenceScenarioReached ==
    /\ pc = "fc_done"
    /\ demand0 = ReferenceDemand
    /\ forecast = ReferenceForecast

====
